---- MODULE Spec2Model ----
(***************************************************************************)
(* The summarize-render-publish pipeline of genai-knowledge-capture-webapp *)
(* (lib/lambda-functions/summarize_and_generate).  One run of the Lambda   *)
(* handler is a sequence of steps, cut at the calls to its collaborators   *)
(* (LLM endpoint, markdown/HTML/PDF rendering, object store).  A Lambda    *)
(* container (a "process") serves its runs one after the other; several    *)
(* containers run concurrently against one bucket and one wall clock.      *)
(*                                                                         *)
(* Text that flows into documents and the bytes of audio clips are         *)
(* sequences of code points / byte values; names used to build object keys *)
(* are strings.                                                            *)
(***************************************************************************)
EXTENDS Integers, Sequences, FiniteSets, TLC

VARIABLES
    pc,          \* pc[p]: position of process p in lambda_handler
    runs,        \* runs[p]: number of invocations process p has started
    request,     \* request[p]: the validated Request of the current run
    ans,         \* ans[p]: what chain.invoke returned in summarization()
    summary,     \* summary[p]: summary_text returned by summarization()
    html,        \* html[p]: html_body, then html_content
    pdfPath,     \* pdfPath[p]: pdf_file_path (name of the temp file), 0 = unset
    sessionId,   \* sessionId[p]: session_id of the current run
    pdfUrl,      \* pdfUrl[p]: pdf_s3_url
    audioUrls,   \* audioUrls[p]: presigned_urls built by upload_audio_to_s3
    response,    \* response[p]: what the caller of the current run receives
    calls,       \* calls[p]: the collaborator calls the current run has made
    attempts,    \* attempts[p]: the requests the SDK sent for the call made
                 \* in the last step of p (0 when that step made no request)
    tmpFiles,    \* tmpFiles[p]: the container's temp directory, name -> bytes
    store,       \* the bucket: key -> [body, run]
    wrote,       \* history: the <<run, key>> pairs of every successful write
    now,         \* the wall clock (microseconds)
    broker       \* the credential broker: its environment, position,
                 \* credentials in hand and the response of its last run

vars == <<pc, runs, request, ans, summary, html, pdfPath, sessionId, pdfUrl,
          audioUrls, response, calls, attempts, tmpFiles, store, wrote, now,
          broker>>

----------------------------------------------------------------------------
(* Bounds of the model *)

MaxRuns == 1        \* invocations served by one container
MaxAudio == 2       \* audio clips in one request
MaxConcRuns == 1    \* invocations served by each of the concurrent containers
MaxBrokerRuns == 2  \* invocations served by the credential broker
MaxAttempts == 2    \* attempts of one SDK call (botocore's default allows 5)
MaxExpiry == 3      \* distinct expiration times the identity service returns

(* Program constants *)

ExpiresIn == 86400
Bucket == "bucket"

----------------------------------------------------------------------------
(* Values *)

NoRequest == [documentName |-> "", questionText |-> <<>>,
              documentText |-> "", audioFiles |-> <<>>]

\* Python values of the summary: a str, None, or a list of nested elements
PyStr(s) == [k |-> "str", s |-> s]
PyNone == [k |-> "none", s |-> <<>>]
PyList == [k |-> "list", s |-> <<>>]

\* Optional values of the response body (null in JSON)
Null(v) == [null |-> TRUE, v |-> v]
Some(v) == [null |-> FALSE, v |-> v]

NoResponse == [kind |-> "none", statusCode |-> 0, exc |-> "",
               pdfFileS3Uri |-> Null(""), audioS3Uris |-> Null(<<>>),
               documentName |-> ""]

----------------------------------------------------------------------------
(* base64.b64decode(audio_file), non-strict: binascii.a2b_base64 *)

B64Alphabet ==
    <<"A","B","C","D","E","F","G","H","I","J","K","L","M","N","O","P",
      "Q","R","S","T","U","V","W","X","Y","Z","a","b","c","d","e","f",
      "g","h","i","j","k","l","m","n","o","p","q","r","s","t","u","v",
      "w","x","y","z","0","1","2","3","4","5","6","7","8","9","+","/">>

InAlphabet(c) == \E i \in 1..Len(B64Alphabet) : B64Alphabet[i] = c

B64Value(c) == (CHOOSE i \in 1..Len(B64Alphabet) : B64Alphabet[i] = c) - 1

\* The decoding loop: i is the read position, quad the position in the
\* current group of four, left the bits carried over, pad the padding seen
\* since the last data character, out the bytes produced so far.
\* Characters outside the alphabet are discarded; leftover data characters
\* at the end are "Incorrect padding" (binascii.Error).
RECURSIVE A2bBase64(_, _, _, _, _, _)
A2bBase64(s, i, quad, left, pad, out) ==
    IF i > Len(s)
    THEN [ok |-> quad = 0, bytes |-> IF quad = 0 THEN out ELSE <<>>]
    ELSE LET c == s[i] IN
         IF c = "="
         THEN IF quad >= 2
              THEN IF quad + pad + 1 >= 4
                   THEN [ok |-> TRUE, bytes |-> out]
                   ELSE A2bBase64(s, i + 1, quad, left, pad + 1, out)
              ELSE A2bBase64(s, i + 1, quad, left, pad, out)
         ELSE IF ~InAlphabet(c)
         THEN A2bBase64(s, i + 1, quad, left, pad, out)
         ELSE LET v == B64Value(c) IN
              CASE quad = 0 -> A2bBase64(s, i + 1, 1, v, 0, out)
                [] quad = 1 -> A2bBase64(s, i + 1, 2, v % 16, 0,
                                         Append(out, left * 4 + (v \div 16)))
                [] quad = 2 -> A2bBase64(s, i + 1, 3, v % 4, 0,
                                         Append(out, left * 16 + (v \div 4)))
                [] quad = 3 -> A2bBase64(s, i + 1, 0, 0, 0,
                                         Append(out, left * 64 + v))

b64decode(s) == A2bBase64(s, 1, 0, 0, 0, <<>>)

----------------------------------------------------------------------------
(* The LLM chain and parse_summary *)

\* What chain.invoke returns: the dict XMLOutputParser builds from the
\* completion.  root is the root tag; hasText tells that the root element
\* holds text instead of child elements; children lists the child elements
\* with their values.
Parsed(root, hasText, children) ==
    [root |-> root, hasText |-> hasText, children |-> children]

Child(tag, val) == [tag |-> tag, val |-> val]

\* summary["Output"][0]["Summary"] raises (KeyError, IndexError, TypeError)
\* unless the root is Output, it holds a list, the list is not empty and its
\* first element has the key Summary.
SummaryLookupRaises(d) ==
    \/ d.root # "Output"
    \/ d.hasText
    \/ Len(d.children) = 0
    \/ d.children[1].tag # "Summary"

\* The except branch only logs; the return statement then reads
\* summary_text, which was never bound: UnboundLocalError.
parse_summary(d) ==
    IF SummaryLookupRaises(d)
    THEN [ok |-> FALSE, exc |-> "UnboundLocalError", val |-> PyNone]
    ELSE [ok |-> TRUE, exc |-> "", val |-> d.children[1].val]

----------------------------------------------------------------------------
(* Rendering: render_html_body, generate_html, html_to_pdf *)

Quote == 34
Backslash == 92
Whitespace == {9, 10, 13, 32}

\* bytes(text, "utf-8").decode("unicode_escape"): a backslash escapes the
\* next character; a backslash that ends the text cannot be decoded.
RECURSIVE UnicodeEscape(_, _, _)
UnicodeEscape(s, i, out) ==
    IF i > Len(s) THEN [ok |-> TRUE, text |-> out]
    ELSE IF s[i] # Backslash THEN UnicodeEscape(s, i + 1, Append(out, s[i]))
    ELSE IF i = Len(s) THEN [ok |-> FALSE, text |-> <<>>]
    ELSE CASE s[i + 1] = 110 -> UnicodeEscape(s, i + 2, Append(out, 10))
           [] s[i + 1] = Backslash -> UnicodeEscape(s, i + 2, Append(out, Backslash))
           [] s[i + 1] = Quote -> UnicodeEscape(s, i + 2, Append(out, Quote))
           [] OTHER -> UnicodeEscape(s, i + 2, out \o <<Backslash, s[i + 1]>>)

\* if text.startswith('"') and text.endswith('"'): text = text[1:-1]
StripQuotes(t) ==
    IF Len(t) >= 1 /\ t[1] = Quote /\ t[Len(t)] = Quote
    THEN IF Len(t) <= 2 THEN <<>> ELSE SubSeq(t, 2, Len(t) - 1)
    ELSE t

RECURSIVE LStrip(_)
LStrip(t) == IF t # <<>> /\ t[1] \in Whitespace THEN LStrip(Tail(t)) ELSE t

RECURSIVE RStrip(_)
RStrip(t) ==
    IF t # <<>> /\ t[Len(t)] \in Whitespace
    THEN RStrip(SubSeq(t, 1, Len(t) - 1)) ELSE t

Strip(t) == RStrip(LStrip(t))

\* markdown.markdown(text) for a plain paragraph: "<p>text</p>", and the
\* empty string for empty text.
markdown_to_html(t) ==
    IF t = <<>> THEN <<>> ELSE <<60, 112, 62>> \o t \o <<60, 47, 112, 62>>

\* h1(u(title)).render(): "<h1><u>title</u></h1>"
add_document_title(title) ==
    <<60, 104, 49, 62, 60, 117, 62>> \o title
        \o <<60, 47, 117, 62, 60, 47, 104, 49, 62>>

\* render_html_body: every exception of the body is re-raised as CodeError.
\* bytes(document_text, "utf-8") is a TypeError unless document_text is a str.
render_html_body(title, text) ==
    IF text.k # "str" THEN [ok |-> FALSE, html |-> <<>>]
    ELSE LET dec == UnicodeEscape(text.s, 1, <<>>) IN
         IF ~dec.ok THEN [ok |-> FALSE, html |-> <<>>]
         ELSE [ok |-> TRUE,
               html |-> add_document_title(title)
                          \o markdown_to_html(Strip(StripQuotes(dec.text)))]

\* strftime("%m-%d-%Y %H:%M:%S", localtime()) at composition time
TimeStamp(t) == <<48 + t>>

\* generate_html: head(style(STYLE_CSS.format(current_time))) + body(raw(html_body))
generate_html(body, t) ==
    <<60, 104, 62>> \o TimeStamp(t) \o <<60, 98, 62>> \o body

\* The bytes weasyprint writes for a document: "%PDF" and the rendered content
PdfBytes(doc) == <<37, 80, 68, 70>> \o doc

----------------------------------------------------------------------------
(* Object keys and URLs *)

\* datetime.now(timezone.utc).strftime("%Y-%m-%d_%H-%M-%S_%f")
SessionIdOf(t) == "2024-01-01_00-00-00_" \o ToString(t)

PdfKey(sid, name) == sid \o "/" \o name \o ".pdf"

AudioKey(sid, name, index) ==
    sid \o "/" \o name \o "_audio_" \o ToString(index) \o ".webm"

\* s3_client.generate_presigned_url("get_object", Bucket, Key, ExpiresIn)
generate_presigned_url(bucket, key) ==
    "https://" \o bucket \o ".s3.amazonaws.com/" \o key
        \o "?X-Amz-Expires=" \o ToString(ExpiresIn)

----------------------------------------------------------------------------
(* Inputs *)

Procs == {1, 2}

DocNames == {"report", "notes"}
Questions == {<<81, 63>>}                       \* "Q?"
Texts == {"", "Item A failed at 10:00."}

\* base64 payloads: "QUI=" (the bytes "AB"), "Q!Q==" (the byte "A", with a
\* character outside the alphabet) and "Q" (not decodable)
ClipAB == <<"Q", "U", "I", "=">>
ClipNoisy == <<"Q", "!", "Q", "=", "=">>
ClipBad == <<"Q">>
Clips == {ClipAB, ClipNoisy, ClipBad}

RECURSIVE SeqsUpTo(_, _)
SeqsUpTo(S, n) ==
    IF n = 0 THEN {<<>>}
    ELSE LET shorter == SeqsUpTo(S, n - 1) IN
         shorter \cup {Append(q, x) : q \in shorter, x \in S}

AudioLists == SeqsUpTo(Clips, MaxAudio)

\* A field of the inbound JSON object: a string, null, or absent
Field(k, s) == [k |-> k, s |-> s]

Payload(name, question, text, audio) ==
    [documentName |-> name, questionText |-> question,
     documentText |-> text, audioFiles |-> audio]

ValidPayloads(names, audios) ==
    {Payload(Field("str", n), Field("str", q), Field("str", t), Field("list", a)) :
        n \in names, q \in Questions, t \in Texts, a \in audios}

\* One required field missing or of the wrong type
MalformedPayloads(names, audios) ==
    UNION {{[v EXCEPT !.documentName.k = k],
            [v EXCEPT !.questionText.k = k],
            [v EXCEPT !.documentText.k = k],
            [v EXCEPT !.audioFiles.k = k],
            [v EXCEPT !.audioFiles.k = "str"]} :
           v \in ValidPayloads(names, audios), k \in {"null", "missing"}}

\* The event: the payload itself, or an object whose "body" is the payload
\* as JSON text; BadJson is an event whose body is not JSON.
BadJson ==
    [form |-> "badjson",
     payload |-> Payload(Field("missing", ""), Field("missing", <<>>),
                         Field("missing", ""), Field("missing", <<>>))]

EventsOver(names, audios) ==
    {[form |-> f, payload |-> v] :
        f \in {"direct", "body"},
        v \in ValidPayloads(names, audios)
               \cup MalformedPayloads(names, {<<>>, <<ClipAB>>})}
    \cup {BadJson}

Events == EventsOver(DocNames, AudioLists)

\* Outcomes of chain.invoke(input_dict): the call raises, or returns the
\* parsed completion.
NoAnswer == Parsed("", FALSE, <<>>)
Raises(exc) == [raises |-> exc, ans |-> NoAnswer]
Returns(d) == [raises |-> "", ans |-> d]

SummaryTexts == {<<97, 98>>,            \* ab
                 <<34, 97, 98, 34>>,    \* "ab"
                 <<32>>,                \* a blank
                 <<97, Backslash>>}     \* a\

LlmOutcomes ==
    {Raises("ReadTimeoutError"), Raises("OutputParserException")}
    \cup {Returns(Parsed("Output", FALSE, <<Child("Summary", PyStr(t))>>)) :
            t \in SummaryTexts}
    \cup {Returns(Parsed("Output", FALSE, <<Child("Summary", PyNone)>>)),
          Returns(Parsed("Output", FALSE, <<Child("Summary", PyList)>>)),
          Returns(Parsed("Output", FALSE, <<>>)),
          Returns(Parsed("Output", TRUE, <<>>)),
          Returns(Parsed("Output", FALSE, <<Child("Other", PyStr(<<97>>)),
                                            Child("Summary", PyStr(<<97, 98>>))>>)),
          Returns(Parsed("Result", FALSE, <<Child("Summary", PyStr(<<97, 98>>))>>))}

----------------------------------------------------------------------------
(* The credential broker: get_credentials/lambda_handler.py *)

RoleSessionName == "TranscribeSession"
Region == "us-east-1"

\* The environment of the container: whether ROLE_ARN and AWS_REGION are set
Env(role, region) == [ROLE_ARN |-> role, AWS_REGION |-> region]

Envs == {Env(role, region) : role \in BOOLEAN, region \in BOOLEAN}

\* response["Credentials"] of sts_client.assume_role; Expiration is a
\* datetime, here the hour of the day
Credentials(id, secret, token, expiry) ==
    [AccessKeyId |-> id, SecretAccessKey |-> secret, SessionToken |-> token,
     Expiration |-> expiry]

NoCredentials == Credentials("", "", "", 0)

\* Outcomes of sts_client.assume_role: the call raises, or returns a
\* response with its Credentials
StsRaises(exc) == [raises |-> exc, credentials |-> NoCredentials]
StsReturns(c) == [raises |-> "", credentials |-> c]

StsOutcomes ==
    {StsRaises("AccessDenied"), StsRaises("EndpointConnectionError"),
     StsRaises("RegionDisabledException")}
    \cup {StsReturns(Credentials(id, "secret", token, expiry)) :
            id \in {"ASIA1", "ASIA2"}, token \in {"token1", "token2"},
            expiry \in 1..MaxExpiry}

\* datetime.isoformat()
isoformat(t) == "2024-01-01T0" \o ToString(t) \o ":00:00+00:00"

\* The body of a response of the broker, before json.dumps
BrokerBody(id, secret, token, expiration, region, message, error) ==
    [AccessKeyId |-> id, SecretAccessKey |-> secret, SessionToken |-> token,
     Expiration |-> expiration, Region |-> region,
     message |-> message, error |-> error]

NoBrokerResponse ==
    [kind |-> "none", statusCode |-> 0, exc |-> "",
     body |-> BrokerBody("", "", "", "", "", "", "")]

\* The return statement of the try block
BrokerOk(c, region) ==
    [kind |-> "returned", statusCode |-> 200, exc |-> "",
     body |-> BrokerBody(c.AccessKeyId, c.SecretAccessKey, c.SessionToken,
                         isoformat(c.Expiration), region, "", "")]

\* The return statement of the except block
BrokerError(exc) ==
    [kind |-> "returned", statusCode |-> 500, exc |-> "",
     body |-> BrokerBody("", "", "", "", "", "Error assuming role", exc)]

\* An exception leaves the handler
BrokerUnhandled(exc) ==
    [kind |-> "raised", statusCode |-> 0, exc |-> exc,
     body |-> BrokerBody("", "", "", "", "", "", "")]

BrokerStart(env) ==
    [env |-> env, pc |-> "idle", runs |-> 0,
     credentials |-> NoCredentials, response |-> NoBrokerResponse]

PipelineVars == <<pc, runs, request, ans, summary, html, pdfPath, sessionId,
                  pdfUrl, audioUrls, response, calls, attempts, tmpFiles,
                  store, wrote, now>>

\* lambda_handler, line 9: role_arn = os.environ["ROLE_ARN"], before the
\* try block; a KeyError here is caught by nothing.
BrokerReadRole ==
    /\ broker.pc \in {"idle", "done"}
    /\ broker.runs < MaxBrokerRuns
    /\ broker' = IF broker.env.ROLE_ARN
                 THEN [broker EXCEPT !.pc = "assume", !.runs = @ + 1,
                                     !.credentials = NoCredentials,
                                     !.response = NoBrokerResponse]
                 ELSE [broker EXCEPT !.pc = "done", !.runs = @ + 1,
                                     !.credentials = NoCredentials,
                                     !.response = BrokerUnhandled("KeyError")]
    /\ UNCHANGED PipelineVars

\* lambda_handler, lines 11-18 and 39-53: sts_client.assume_role inside the
\* try block; its exception becomes the 500 envelope.
BrokerAssumeRole ==
    /\ broker.pc = "assume"
    /\ \E out \in StsOutcomes :
         broker' = IF out.raises # ""
                   THEN [broker EXCEPT !.pc = "done",
                                       !.response = BrokerError(out.raises)]
                   ELSE [broker EXCEPT !.pc = "respond",
                                       !.credentials = out.credentials]
    /\ UNCHANGED PipelineVars

\* lambda_handler, lines 19-38: build the body; os.environ["AWS_REGION"] is
\* read inside the try block, so its KeyError becomes the 500 envelope.
BrokerRespond ==
    /\ broker.pc = "respond"
    /\ broker' = [broker EXCEPT
                    !.pc = "done",
                    !.response = IF broker.env.AWS_REGION
                                 THEN BrokerOk(broker.credentials, Region)
                                 ELSE BrokerError("'AWS_REGION'")]
    /\ UNCHANGED PipelineVars

----------------------------------------------------------------------------
(* The handler *)

\* Request(**payload): pydantic validation of the four required fields
ValidRequest(payload) ==
    /\ payload.documentName.k = "str"
    /\ payload.questionText.k = "str"
    /\ payload.documentText.k = "str"
    /\ payload.audioFiles.k = "list"

\* The branch taken for every text
TruthyAlways(text) == TRUE

\* `if document_text:`
Truthy(text) == text # ""

Call(op, key, ok, body) == [op |-> op, key |-> key, ok |-> ok, body |-> body]

\* The clients of Connections are built without a `retries` setting
\* (s3: no Config; bedrock-runtime: Config(read_timeout=1000)), so botocore
\* applies its default retry policy to every request: a connection error,
\* a read timeout or a 5xx answer is followed by another attempt, and the
\* call raises only when the attempts are used up.
RetryableErrors == {"ReadTimeoutError"}

\* The steps whose last logged call sent a request: chain.invoke (logged
\* with the parse_summary that follows it), upload_file and put_object.
\* generate_presigned_url signs locally.
RequestOps == {"llm", "parse_summary", "upload_file", "put_object"}

\* The numbers of requests the SDK may have sent in a step that left the
\* log `log` and the exception `exc`
StepRequests(log, exc) ==
    IF log = <<>> \/ log[Len(log)].op \notin RequestOps THEN {0}
    ELSE IF exc \in RetryableErrors THEN {MaxAttempts}
    ELSE 1..MaxAttempts

\* The response the handler returns
Returned(status, pdf, audio, name) ==
    [kind |-> "returned", statusCode |-> status, exc |-> "",
     pdfFileS3Uri |-> pdf, audioS3Uris |-> audio, documentName |-> name]

\* A handler that answers a failure with what the run had published so far
PartialResponse(p, exc) ==
    [kind |-> "returned", statusCode |-> 500, exc |-> exc,
     pdfFileS3Uri |-> Some(pdfUrl[p]), audioS3Uris |-> Some(audioUrls[p]),
     documentName |-> request[p].documentName]

\* What the caller receives when an exception leaves lambda_handler: the
\* Lambda runtime's error for that exception, no response of the handler.
Unhandled(p, exc) ==
    [kind |-> "raised", statusCode |-> 0, exc |-> exc,
     pdfFileS3Uri |-> Null(""), audioS3Uris |-> Null(<<>>),
     documentName |-> ""]

\* An exception propagates out of the handler: nothing in lambda_handler
\* or in its decorators catches it.
Raise(p, exc) ==
    /\ pc' = [pc EXCEPT ![p] = "done"]
    /\ response' = [response EXCEPT ![p] = Unhandled(p, exc)]

RunId(p) == <<p, runs[p]>>

Put(key, body, run) ==
    [k \in DOMAIN store \cup {key} |->
        IF k = key THEN [body |-> body, run |-> run] ELSE store[k]]

PipelineInit ==
    /\ pc = [p \in Procs |-> "idle"]
    /\ runs = [p \in Procs |-> 0]
    /\ request = [p \in Procs |-> NoRequest]
    /\ ans = [p \in Procs |-> NoAnswer]
    /\ summary = [p \in Procs |-> PyNone]
    /\ html = [p \in Procs |-> <<>>]
    /\ pdfPath = [p \in Procs |-> 0]
    /\ sessionId = [p \in Procs |-> ""]
    /\ pdfUrl = [p \in Procs |-> ""]
    /\ audioUrls = [p \in Procs |-> <<>>]
    /\ response = [p \in Procs |-> NoResponse]
    /\ calls = [p \in Procs |-> <<>>]
    /\ attempts = [p \in Procs |-> 0]
    /\ tmpFiles = [p \in Procs |-> <<>>]
    /\ store = [k \in {} |-> 0]
    /\ wrote = {}
    /\ now = 0

Init == PipelineInit /\ broker = BrokerStart(Env(TRUE, TRUE))

\* lambda_handler, lines 43-54 and 87-106: parse and validate the event,
\* then either go on to summarization or answer 400 for an empty text.
Receive(p, events, limit) ==
    /\ pc[p] \in {"idle", "done"}
    /\ runs[p] < limit
    /\ runs' = [runs EXCEPT ![p] = @ + 1]
    /\ ans' = [ans EXCEPT ![p] = NoAnswer]
    /\ summary' = [summary EXCEPT ![p] = PyNone]
    /\ html' = [html EXCEPT ![p] = <<>>]
    /\ pdfPath' = [pdfPath EXCEPT ![p] = 0]
    /\ sessionId' = [sessionId EXCEPT ![p] = ""]
    /\ pdfUrl' = [pdfUrl EXCEPT ![p] = ""]
    /\ audioUrls' = [audioUrls EXCEPT ![p] = <<>>]
    /\ calls' = [calls EXCEPT ![p] = <<>>]
    /\ \E ev \in events :
         IF ev.form = "badjson"
         THEN /\ Raise(p, "JSONDecodeError")
              /\ request' = [request EXCEPT ![p] = NoRequest]
         ELSE IF ~ValidRequest(ev.payload)
         THEN /\ Raise(p, "ValidationError")
              /\ request' = [request EXCEPT ![p] = NoRequest]
         ELSE LET req == [documentName |-> ev.payload.documentName.s,
                          questionText |-> ev.payload.questionText.s,
                          documentText |-> ev.payload.documentText.s,
                          audioFiles |-> ev.payload.audioFiles.s] IN
              /\ request' = [request EXCEPT ![p] = req]
              /\ IF Truthy(req.documentText)
                 THEN /\ pc' = [pc EXCEPT ![p] = "summarize"]
                      /\ response' = [response EXCEPT ![p] = NoResponse]
                 ELSE /\ pc' = [pc EXCEPT ![p] = "done"]
                      /\ response' = [response EXCEPT ![p] =
                            Returned(400, Null(""), Null(<<>>), req.documentName)]
    /\ UNCHANGED <<broker, tmpFiles, store, wrote, now>>
    /\ \E n \in StepRequests(calls'[p], response'[p].exc) :
         attempts' = [attempts EXCEPT ![p] = n]

\* A summarization that swallows the error of the endpoint and goes on
\* with an empty summary
SummarizeSwallow(p, outcomes) ==
    /\ pc[p] = "summarize"
    /\ now' = now + 1
    /\ \E out \in outcomes :
         /\ ans' = [ans EXCEPT ![p] = out.ans]
         /\ IF out.raises # ""
            THEN /\ calls' = [calls EXCEPT ![p] =
                                @ \o <<Call("llm", "", FALSE, <<>>),
                                       Call("parse_summary", "", TRUE, <<>>)>>]
                 /\ summary' = [summary EXCEPT ![p] = PyStr(<<>>)]
                 /\ pc' = [pc EXCEPT ![p] = "render"]
                 /\ UNCHANGED response
            ELSE LET r == parse_summary(out.ans) IN
                 /\ calls' = [calls EXCEPT ![p] =
                                @ \o <<Call("llm", "", TRUE, <<>>),
                                       Call("parse_summary", "", r.ok, <<>>)>>]
                 /\ IF ~r.ok
                    THEN Raise(p, r.exc) /\ UNCHANGED summary
                    ELSE /\ summary' = [summary EXCEPT ![p] = r.val]
                         /\ pc' = [pc EXCEPT ![p] = "render"]
                         /\ UNCHANGED response
    /\ UNCHANGED <<broker, runs, request, html, pdfPath, sessionId, pdfUrl, audioUrls,
                   tmpFiles, store, wrote>>
    /\ \E n \in StepRequests(calls'[p], response'[p].exc) :
         attempts' = [attempts EXCEPT ![p] = n]

\* summarization(question, [document_text]): invoke the chain, then
\* parse_summary.  The call to the endpoint takes time.
Summarize(p, outcomes) ==
    /\ pc[p] = "summarize"
    /\ now' = now + 1
    /\ \E out \in outcomes :
         /\ ans' = [ans EXCEPT ![p] = out.ans]
         /\ IF out.raises # ""
            THEN /\ calls' = [calls EXCEPT ![p] =
                                Append(@, Call("llm", "", FALSE, <<>>))]
                 /\ Raise(p, out.raises)
                 /\ UNCHANGED summary
            ELSE LET r == parse_summary(out.ans) IN
                 /\ calls' = [calls EXCEPT ![p] =
                                @ \o <<Call("llm", "", TRUE, <<>>),
                                       Call("parse_summary", "", r.ok, <<>>)>>]
                 /\ IF ~r.ok
                    THEN Raise(p, r.exc) /\ UNCHANGED summary
                    ELSE /\ summary' = [summary EXCEPT ![p] = r.val]
                         /\ pc' = [pc EXCEPT ![p] = "render"]
                         /\ UNCHANGED response
    /\ UNCHANGED <<broker, runs, request, html, pdfPath, sessionId, pdfUrl, audioUrls,
                   tmpFiles, store, wrote>>
    /\ \E n \in StepRequests(calls'[p], response'[p].exc) :
         attempts' = [attempts EXCEPT ![p] = n]

\* generate_document, line 43: render_html_body(document_title, document_text)
RenderHtmlBody(p) ==
    /\ pc[p] = "render"
    /\ LET r == render_html_body(request[p].questionText, summary[p]) IN
         /\ calls' = [calls EXCEPT ![p] =
                        Append(@, Call("render_html_body", "", r.ok, <<>>))]
         /\ IF r.ok
            THEN /\ html' = [html EXCEPT ![p] = r.html]
                 /\ pc' = [pc EXCEPT ![p] = "compose"]
                 /\ UNCHANGED response
            ELSE Raise(p, "CodeError") /\ UNCHANGED html
    /\ UNCHANGED <<broker, runs, request, ans, summary, pdfPath, sessionId, pdfUrl,
                   audioUrls, tmpFiles, store, wrote, now>>
    /\ \E n \in StepRequests(calls'[p], response'[p].exc) :
         attempts' = [attempts EXCEPT ![p] = n]

\* generate_document, line 44: generate_html(html_body)
GenerateHtml(p) ==
    /\ pc[p] = "compose"
    /\ calls' = [calls EXCEPT ![p] =
                   Append(@, Call("generate_html", "", TRUE, <<>>))]
    /\ html' = [html EXCEPT ![p] = generate_html(html[p], now)]
    /\ pc' = [pc EXCEPT ![p] = "export"]
    /\ UNCHANGED <<broker, runs, request, ans, summary, pdfPath, sessionId, pdfUrl,
                   audioUrls, response, tmpFiles, store, wrote, now>>
    /\ \E n \in StepRequests(calls'[p], response'[p].exc) :
         attempts' = [attempts EXCEPT ![p] = n]

\* generate_pdf: a new named temporary file (delete=False) receives the
\* HTML text, then html_to_pdf writes the PDF over it or raises CodeError.
\* Nothing removes the file, on either path.
GeneratePdf(p) ==
    /\ pc[p] = "export"
    /\ \E ok \in BOOLEAN :
         /\ calls' = [calls EXCEPT ![p] =
                        Append(@, Call("generate_pdf", "", ok, <<>>))]
         /\ tmpFiles' = [tmpFiles EXCEPT ![p] =
                           Append(@, IF ok THEN PdfBytes(html[p]) ELSE html[p])]
         /\ IF ok
            THEN /\ pdfPath' = [pdfPath EXCEPT ![p] = Len(tmpFiles[p]) + 1]
                 /\ pc' = [pc EXCEPT ![p] = "upload_pdf"]
                 /\ UNCHANGED response
            ELSE Raise(p, "CodeError") /\ UNCHANGED pdfPath
    /\ UNCHANGED <<broker, runs, request, ans, summary, html, sessionId, pdfUrl,
                   audioUrls, store, wrote, now>>
    /\ \E n \in StepRequests(calls'[p], response'[p].exc) :
         attempts' = [attempts EXCEPT ![p] = n]

\* An upload whose failure is not raised: the run goes on to sign the key
UploadPdfIgnoreFailure(p) ==
    /\ pc[p] = "upload_pdf"
    /\ LET sid == SessionIdOf(now)
           key == PdfKey(sid, request[p].documentName)
           body == tmpFiles[p][pdfPath[p]] IN
         /\ sessionId' = [sessionId EXCEPT ![p] = sid]
         /\ \E ok \in BOOLEAN :
              /\ calls' = [calls EXCEPT ![p] =
                             Append(@, Call("upload_file", key, ok, body))]
              /\ store' = IF ok THEN Put(key, body, RunId(p)) ELSE store
              /\ wrote' = IF ok THEN wrote \cup {<<RunId(p), key>>} ELSE wrote
              /\ pc' = [pc EXCEPT ![p] = "sign_pdf"]
              /\ UNCHANGED response
    /\ UNCHANGED <<broker, runs, request, ans, summary, html, pdfPath, pdfUrl, audioUrls,
                   tmpFiles, now>>
    /\ \E n \in StepRequests(calls'[p], response'[p].exc) :
         attempts' = [attempts EXCEPT ![p] = n]

\* generate_document, line 47, and upload_pdf_to_s3 up to upload_file:
\* the session id is the wall clock read now.
UploadPdf(p) ==
    /\ pc[p] = "upload_pdf"
    /\ LET sid == SessionIdOf(now)
           key == PdfKey(sid, request[p].documentName)
           body == tmpFiles[p][pdfPath[p]] IN
         /\ sessionId' = [sessionId EXCEPT ![p] = sid]
         /\ \E ok \in BOOLEAN :
              /\ calls' = [calls EXCEPT ![p] =
                             Append(@, Call("upload_file", key, ok, body))]
              /\ IF ok
                 THEN /\ store' = Put(key, body, RunId(p))
                      /\ wrote' = wrote \cup {<<RunId(p), key>>}
                      /\ pc' = [pc EXCEPT ![p] = "sign_pdf"]
                      /\ UNCHANGED response
                 ELSE Raise(p, "CodeError") /\ UNCHANGED <<store, wrote>>
    /\ UNCHANGED <<broker, runs, request, ans, summary, html, pdfPath, pdfUrl, audioUrls,
                   tmpFiles, now>>
    /\ \E n \in StepRequests(calls'[p], response'[p].exc) :
         attempts' = [attempts EXCEPT ![p] = n]

\* upload_pdf_to_s3, line 86: the URL of the key just written
SignPdf(p) ==
    /\ pc[p] = "sign_pdf"
    /\ LET key == PdfKey(sessionId[p], request[p].documentName) IN
       \E ok \in BOOLEAN :
         /\ calls' = [calls EXCEPT ![p] =
                        Append(@, Call("presign", key, ok, <<>>))]
         /\ IF ok
            THEN /\ pdfUrl' = [pdfUrl EXCEPT ![p] =
                                 generate_presigned_url(Bucket, key)]
                 /\ pc' = [pc EXCEPT ![p] = "audio"]
                 /\ UNCHANGED response
            ELSE Raise(p, "CodeError") /\ UNCHANGED pdfUrl
    /\ UNCHANGED <<broker, runs, request, ans, summary, html, pdfPath, sessionId,
                   audioUrls, tmpFiles, store, wrote, now>>
    /\ \E n \in StepRequests(calls'[p], response'[p].exc) :
         attempts' = [attempts EXCEPT ![p] = n]

\* upload_audio_to_s3, lines 97-109: one iteration of the loop up to
\* put_object.  index is the number of iterations already completed.
PutAudio(p) ==
    /\ pc[p] = "audio"
    /\ Len(audioUrls[p]) < Len(request[p].audioFiles)
    /\ LET index == Len(audioUrls[p])
           key == AudioKey(sessionId[p], request[p].documentName, index)
           dec == b64decode(request[p].audioFiles[index + 1]) IN
         IF ~dec.ok
         THEN /\ calls' = [calls EXCEPT ![p] =
                             Append(@, Call("b64decode", "", FALSE, <<>>))]
              /\ Raise(p, "CodeError")
              /\ UNCHANGED <<store, wrote>>
         ELSE \E ok \in BOOLEAN :
                /\ calls' = [calls EXCEPT ![p] =
                               @ \o <<Call("b64decode", "", TRUE, <<>>),
                                      Call("put_object", key, ok, dec.bytes)>>]
                /\ IF ok
                   THEN /\ store' = Put(key, dec.bytes, RunId(p))
                        /\ wrote' = wrote \cup {<<RunId(p), key>>}
                        /\ pc' = [pc EXCEPT ![p] = "sign_audio"]
                        /\ UNCHANGED response
                   ELSE Raise(p, "CodeError") /\ UNCHANGED <<store, wrote>>
    /\ UNCHANGED <<broker, runs, request, ans, summary, html, pdfPath, sessionId, pdfUrl,
                   audioUrls, tmpFiles, now>>
    /\ \E n \in StepRequests(calls'[p], response'[p].exc) :
         attempts' = [attempts EXCEPT ![p] = n]

\* A loop that puts each new URL in front of the list
SignAudioPrepend(p) ==
    /\ pc[p] = "sign_audio"
    /\ LET index == Len(audioUrls[p])
           key == AudioKey(sessionId[p], request[p].documentName, index) IN
       \E ok \in BOOLEAN :
         /\ calls' = [calls EXCEPT ![p] =
                        Append(@, Call("presign", key, ok, <<>>))]
         /\ IF ok
            THEN /\ audioUrls' = [audioUrls EXCEPT ![p] =
                                    <<generate_presigned_url(Bucket, key)>> \o @]
                 /\ pc' = [pc EXCEPT ![p] = "audio"]
                 /\ UNCHANGED response
            ELSE Raise(p, "CodeError") /\ UNCHANGED audioUrls
    /\ UNCHANGED <<broker, runs, request, ans, summary, html, pdfPath, sessionId, pdfUrl,
                   tmpFiles, store, wrote, now>>
    /\ \E n \in StepRequests(calls'[p], response'[p].exc) :
         attempts' = [attempts EXCEPT ![p] = n]

\* upload_audio_to_s3, lines 110-112: sign the key and append the URL
SignAudio(p) ==
    /\ pc[p] = "sign_audio"
    /\ LET index == Len(audioUrls[p])
           key == AudioKey(sessionId[p], request[p].documentName, index) IN
       \E ok \in BOOLEAN :
         /\ calls' = [calls EXCEPT ![p] =
                        Append(@, Call("presign", key, ok, <<>>))]
         /\ IF ok
            THEN /\ audioUrls' = [audioUrls EXCEPT ![p] =
                                    Append(@, generate_presigned_url(Bucket, key))]
                 /\ pc' = [pc EXCEPT ![p] = "audio"]
                 /\ UNCHANGED response
            ELSE Raise(p, "CodeError") /\ UNCHANGED audioUrls
    /\ UNCHANGED <<broker, runs, request, ans, summary, html, pdfPath, sessionId, pdfUrl,
                   tmpFiles, store, wrote, now>>
    /\ \E n \in StepRequests(calls'[p], response'[p].exc) :
         attempts' = [attempts EXCEPT ![p] = n]

\* The status generate_document reports on its only return path
DocStatus == 200

\* upload_audio_to_s3 returns, generate_document returns its Response and
\* lambda_handler (lines 81-106) builds the response of the run.
Return(p) ==
    /\ pc[p] = "audio"
    /\ Len(audioUrls[p]) = Len(request[p].audioFiles)
    /\ pc' = [pc EXCEPT ![p] = "done"]
    /\ response' = [response EXCEPT ![p] =
          Returned(IF DocStatus = 200 THEN 200 ELSE 400,
                   Some(pdfUrl[p]), Some(audioUrls[p]),
                   request[p].documentName)]
    /\ UNCHANGED <<broker, runs, request, ans, summary, html, pdfPath, sessionId, pdfUrl,
                   audioUrls, calls, tmpFiles, store, wrote, now>>
    /\ \E n \in StepRequests(calls'[p], response'[p].exc) :
         attempts' = [attempts EXCEPT ![p] = n]

----------------------------------------------------------------------------
(* Specifications *)

\* One container serving its invocations one after the other
Next ==
    \/ Receive(1, Events, MaxRuns)
    \/ Summarize(1, LlmOutcomes)
    \/ RenderHtmlBody(1)
    \/ GenerateHtml(1)
    \/ GeneratePdf(1)
    \/ UploadPdf(1)
    \/ SignPdf(1)
    \/ PutAudio(1)
    \/ SignAudio(1)
    \/ Return(1)

Spec == Init /\ [][Next]_vars

\* Several containers serve invocations concurrently; they share the bucket
\* and the wall clock, and each has its own temp directory.
ConcEvents == EventsOver(DocNames, {<<>>, <<ClipAB>>})

ConcOutcomes ==
    {Raises("ReadTimeoutError"),
     Returns(Parsed("Output", FALSE, <<Child("Summary", PyStr(<<97, 98>>))>>))}

NextConc ==
    \E p \in Procs :
        \/ Receive(p, ConcEvents, MaxConcRuns)
        \/ Summarize(p, ConcOutcomes)
        \/ RenderHtmlBody(p)
        \/ GenerateHtml(p)
        \/ GeneratePdf(p)
        \/ UploadPdf(p)
        \/ SignPdf(p)
        \/ PutAudio(p)
        \/ SignAudio(p)
        \/ Return(p)

SpecConc == Init /\ [][NextConc]_vars

\* The credential broker alone, in a container with any environment
InitBroker == PipelineInit /\ \E env \in Envs : broker = BrokerStart(env)

NextBroker ==
    \/ BrokerReadRole
    \/ BrokerAssumeRole
    \/ BrokerRespond

SpecBroker == InitBroker /\ [][NextBroker]_vars

----------------------------------------------------------------------------
(* Properties *)

Done(p) == pc[p] = "done"

\* The event of the current run passed json.loads and Request(**payload)
Validated(p) == request[p] # NoRequest

\* Some stage of the current run raised
StageFailed(p) == \E i \in 1..Len(calls[p]) : ~calls[p][i].ok

PublicationOps == {"upload_file", "b64decode", "put_object", "presign"}
WriteOps == {"upload_file", "put_object"}

\* The current run of p has made a call to the object store
StoreCalled(p) ==
    \E i \in 1..Len(calls[p]) :
        calls[p][i].op \in {"upload_file", "put_object", "presign"}

LlmCalled(p) == \E i \in 1..Len(calls[p]) : calls[p][i].op = "llm"

\* C1: every finished run of the handler on a valid request has a response
\* whose statusCode is 400 iff documentText was empty, 500 iff a downstream
\* stage raised, and 200 otherwise; a stage error never leaves the handler
\* as an exception.
C1_StatusByOutcome ==
    \A p \in Procs :
        Done(p) /\ Validated(p) =>
            /\ response[p].kind = "returned"
            /\ response[p].statusCode = 400 <=> request[p].documentText = ""
            /\ response[p].statusCode = 500 <=> StageFailed(p)
            /\ response[p].statusCode = 200 <=>
                  (request[p].documentText # "" /\ ~StageFailed(p))

\* C2: a run whose documentText is empty makes no call to the LLM endpoint
\* and none to the object store, writes nothing, and answers 400 with
\* pdfFileS3Uri = null and audioS3Uris = null.
C2_EmptyTextShortCircuit ==
    \A p \in Procs :
        Validated(p) /\ request[p].documentText = "" =>
            /\ calls[p] = <<>>
            /\ \A w \in wrote : w[1] # RunId(p)
            /\ Done(p)
            /\ response[p].kind = "returned"
            /\ response[p].statusCode = 400
            /\ response[p].pdfFileS3Uri.null
            /\ response[p].audioS3Uris.null

\* A run with two clips in the request and an empty text has been
\* answered 400.
C2_Witness ==
    \E p \in Procs :
        /\ Done(p)
        /\ request[p].documentName = "notes"
        /\ request[p].documentText = ""
        /\ request[p].audioFiles = <<ClipAB, ClipNoisy>>
        /\ response[p].statusCode = 400
        /\ response[p].pdfFileS3Uri.null

\* The current run of p has returned status 200
Succeeded(p) ==
    Done(p) /\ response[p].kind = "returned" /\ response[p].statusCode = 200

\* The calls in which the current run of p wrote key
PutsOf(p, key) ==
    {i \in 1..Len(calls[p]) :
        calls[p][i].op \in WriteOps /\ calls[p][i].key = key /\ calls[p][i].ok}

\* C3: in a successful run audioS3Uris has as many elements as audioFiles,
\* and its i-th element is the URL signed for the key
\* <sessionId>/<documentName>_audio_<i>.webm, under which the run stored,
\* once, the decoded i-th clip.
C3_AudioUrlsMatchClips ==
    \A p \in Procs :
        Succeeded(p) =>
            LET req == request[p]
                urls == response[p].audioS3Uris IN
            /\ ~urls.null
            /\ Len(urls.v) = Len(req.audioFiles)
            /\ \A i \in 1..Len(req.audioFiles) :
                 LET key == AudioKey(sessionId[p], req.documentName, i - 1) IN
                 /\ urls.v[i] = generate_presigned_url(Bucket, key)
                 /\ Cardinality(PutsOf(p, key)) = 1
                 /\ \A j \in PutsOf(p, key) :
                      /\ calls[p][j].op = "put_object"
                      /\ calls[p][j].body = b64decode(req.audioFiles[i]).bytes
            /\ Cardinality({j \in 1..Len(calls[p]) : calls[p][j].op = "put_object"})
                  = Len(req.audioFiles)

\* A successful run with two different clips: "Q!Q==" (one byte, 65) stored
\* under index 0 and "QUI=" (65, 66) under index 1, URLs in that order.
C3_Witness ==
    \E p \in Procs :
        /\ Succeeded(p)
        /\ request[p].audioFiles = <<ClipNoisy, ClipAB>>
        /\ \E i, j \in 1..Len(calls[p]) :
             /\ i < j
             /\ calls[p][i] = Call("put_object",
                    sessionId[p] \o "/" \o request[p].documentName \o "_audio_0.webm",
                    TRUE, <<65>>)
             /\ calls[p][j] = Call("put_object",
                    sessionId[p] \o "/" \o request[p].documentName \o "_audio_1.webm",
                    TRUE, <<65, 66>>)
        /\ Len(response[p].audioS3Uris.v) = 2

\* C4: a URL is signed for a key only after the same run has written that
\* key with success; after a failed write of a key the run signs nothing
\* for it; every URL the run holds is the URL of a key it has written.
C4_WriteBeforeSign ==
    \A p \in Procs :
        /\ \A j \in 1..Len(calls[p]) :
             calls[p][j].op = "presign" =>
                \E i \in 1..(j - 1) :
                    /\ calls[p][i].op \in WriteOps
                    /\ calls[p][i].key = calls[p][j].key
                    /\ calls[p][i].ok
        /\ \A i, j \in 1..Len(calls[p]) :
             calls[p][i].op \in WriteOps /\ ~calls[p][i].ok
                => ~(calls[p][j].op = "presign" /\ calls[p][j].key = calls[p][i].key)
        /\ pdfUrl[p] # "" =>
             \E w \in wrote :
                /\ w[1] = RunId(p)
                /\ pdfUrl[p] = generate_presigned_url(Bucket, w[2])
        /\ \A n \in 1..Len(audioUrls[p]) :
             \E w \in wrote :
                /\ w[1] = RunId(p)
                /\ audioUrls[p][n] = generate_presigned_url(Bucket, w[2])

\* A run that holds the PDF URL and one audio URL, and whose write of the
\* second clip has failed.
C4_Witness ==
    \E p \in Procs :
        /\ pdfUrl[p] # ""
        /\ Len(audioUrls[p]) = 1
        /\ Len(calls[p]) > 0
        /\ calls[p][Len(calls[p])].op = "put_object"
        /\ ~calls[p][Len(calls[p])].ok

\* The current run of p failed during publication
PublicationFailed(p) ==
    \E i \in 1..Len(calls[p]) :
        calls[p][i].op \in PublicationOps /\ ~calls[p][i].ok

\* C5: what the caller receives from a run that failed during publication
\* holds no artifact URL: neither the PDF URL nor any audio URL.
C5_NoPartialArtifacts ==
    \A p \in Procs :
        Done(p) /\ PublicationFailed(p) =>
            /\ response[p].pdfFileS3Uri.null
            /\ response[p].audioS3Uris.null
            /\ response[p].statusCode # 200

\* A finished run that had minted the PDF URL and one audio URL before the
\* second clip failed to decode.
C5_Witness ==
    \E p \in Procs :
        /\ Done(p)
        /\ pdfUrl[p] # ""
        /\ Len(audioUrls[p]) = 1
        /\ calls[p][Len(calls[p])] = Call("b64decode", "", FALSE, <<>>)
        /\ response[p].kind = "raised"

\* C6: a malformed payload (a required field missing or of the wrong type,
\* or a body that is not JSON) is answered by the handler with status 400,
\* and the run calls neither the LLM endpoint nor the object store.
C6_MalformedAnswered400 ==
    \A p \in Procs :
        Done(p) /\ ~Validated(p) =>
            /\ response[p].kind = "returned"
            /\ response[p].statusCode = 400
            /\ calls[p] = <<>>

\* The completion has the structure <Output><Summary>text</Summary></Output>
ExpectedStructure(d) ==
    /\ ~SummaryLookupRaises(d)
    /\ d.children[1].val.k = "str"
    /\ d.children[1].val.s # <<>>

LlmReturned(p) ==
    \E i \in 1..Len(calls[p]) : calls[p][i].op = "llm" /\ calls[p][i].ok

\* C7: when the completion lacks the expected structure (tags absent or
\* malformed, summary missing or empty) the summarization stage fails and
\* the run ends there: rendering and publication never start.
C7_MalformedOutputFailsSummarization ==
    \A p \in Procs :
        LlmReturned(p) /\ ~ExpectedStructure(ans[p]) =>
            /\ Done(p)
            /\ response[p].kind # "none"
            /\ Len(calls[p]) = 2
            /\ calls[p][2].op = "parse_summary" /\ ~calls[p][2].ok

RECURSIVE AudioOps(_)
AudioOps(n) ==
    IF n = 0 THEN <<>>
    ELSE AudioOps(n - 1) \o <<"b64decode", "put_object", "presign">>

\* The stages of a run with n clips, in the order of the handler
ExpectedOps(n) ==
    <<"llm", "parse_summary", "render_html_body", "generate_html",
      "generate_pdf", "upload_file", "presign">> \o AudioOps(n)

RenderingOps == {"llm", "parse_summary", "render_html_body",
                 "generate_html", "generate_pdf"}

\* C8: the stages of a run happen in the order summarize, render, publish
\* PDF, publish the clips by index; a stage starts only after all earlier
\* ones have succeeded; a run whose LLM call or rendering failed makes no
\* call to the object store and writes nothing.
C8_StagesInOrder ==
    \A p \in Procs :
        LET exp == ExpectedOps(Len(request[p].audioFiles))
            n == Len(calls[p]) IN
        /\ n <= Len(exp)
        /\ \A i \in 1..n : calls[p][i].op = exp[i]
        /\ \A i \in 1..(n - 1) : calls[p][i].ok
        /\ \A i \in 1..n :
             calls[p][i].op = "put_object" =>
                calls[p][i].key = AudioKey(sessionId[p], request[p].documentName,
                                           (i - 9) \div 3)
        /\ (\E i \in 1..n : calls[p][i].op \in RenderingOps /\ ~calls[p][i].ok)
              => /\ ~StoreCalled(p)
                 /\ \A w \in wrote : w[1] # RunId(p)

\* A run with two clips ended with the timeout of its LLM call, its only
\* call, and the bucket is untouched.
C8_Witness ==
    \E p \in Procs :
        /\ Done(p)
        /\ Len(request[p].audioFiles) = 2
        /\ calls[p] = <<Call("llm", "", FALSE, <<>>)>>
        /\ response[p].exc = "ReadTimeoutError"
        /\ \A w \in wrote : w[1] # RunId(p)

\* C9: after a run has ended, however it ended, no temporary file of the
\* container is left.
C9_NoLeftoverTempFiles ==
    \A p \in Procs : pc[p] \in {"idle", "done"} => tmpFiles[p] = <<>>

\* C10: two distinct runs never write the same key, so no object in the
\* bucket is overwritten by a run other than the one that first wrote it.
C10_DisjointKeys ==
    /\ \A a, b \in wrote : a[2] = b[2] => a[1] = b[1]
    /\ \A w \in wrote : store[w[2]].run = w[1]

\* C11: every invocation of the credential broker ends with a response of
\* the handler, never with an exception: status 200 with AccessKeyId,
\* SecretAccessKey, SessionToken, Expiration (ISO-8601) and Region, or
\* status 500 with the envelope {message, error}.
C11_BrokerAlwaysResponds ==
    broker.pc = "done" =>
        /\ broker.response.kind = "returned"
        /\ \/ /\ broker.response.statusCode = 200
              /\ broker.response.body =
                    BrokerBody(broker.credentials.AccessKeyId,
                               broker.credentials.SecretAccessKey,
                               broker.credentials.SessionToken,
                               isoformat(broker.credentials.Expiration),
                               Region, "", "")
           \/ /\ broker.response.statusCode = 500
              /\ broker.response.body.message # ""
              /\ broker.response.body.error # ""
              /\ broker.response.body.AccessKeyId = ""

\* The calls of a run that reach the LLM endpoint or the object store
DependencyOps == {"llm", "upload_file", "put_object"}

\* C12: nothing in a run is retried: no call is sent to its endpoint more
\* than once, the LLM endpoint is invoked at most once and each object key
\* is written at most once in a run, and a failed or timed-out LLM or
\* object-store call is the last call of its run.
C12_NoAutomaticRetry ==
    \A p \in Procs :
        /\ attempts[p] <= 1
        /\ Cardinality({i \in 1..Len(calls[p]) : calls[p][i].op = "llm"}) <= 1
        /\ \A i, j \in 1..Len(calls[p]) :
              /\ calls[p][i].op \in WriteOps
              /\ calls[p][j].op \in WriteOps
              /\ calls[p][i].key = calls[p][j].key
              => i = j
        /\ \A i \in 1..Len(calls[p]) :
              calls[p][i].op \in DependencyOps /\ ~calls[p][i].ok
              => i = Len(calls[p]) /\ Done(p)

====
